---- MODULE Spec2Model ----
(***************************************************************************)
(* LSEQ identifier generator (crate lseq): the bit-width policy            *)
(* (src/base.rs, DoubleBase), the identifier order (src/lseq.rs and        *)
(* src/ident.rs, impl Ord for Ident), the per-depth strategy table and     *)
(* LSEQGenerator::generate (src/lseq.rs), and the chain-insertion loop of  *)
(* tests::it_works (src/lseq.rs).                                          *)
(*                                                                         *)
(* A digit is a rug::Integer carrying a guard bit one position above its   *)
(* value bits; it is modelled by the same non-negative integer.            *)
(* An Option<T> is modelled by a set: {} is None, {x} is Some(x).          *)
(***************************************************************************)
EXTENDS Integers, Sequences, FiniteSets, TLC

VARIABLES
  args,        \* the Option<u32> arguments given to DoubleBase::new / LSEQGenerator::new
  initial,     \* DoubleBase.initial
  boundary,    \* LSEQGenerator.boundary
  strategies,  \* LSEQGenerator.strategies: depth -> strategy (a partial map)
  list,        \* the ordered container of tests::it_works
  pc,          \* position of the program: "new", "idle", "search", "done", "panic", "cmp", "compared"
  replica,     \* generate's argument replica
  left,        \* generate's argument left  (Option<&Ident>)
  right,       \* generate's argument right (Option<&Ident>)
  depth,       \* generate's local depth
  interval,    \* generate's local interval
  strategy,    \* generate's local strategy (Option: {} before the match)
  delta,       \* generate's local plus / minus (0 before it is drawn)
  result,      \* the Ident generate returned (Option)
  ordering     \* the Ordering Ident::cmp returned (Option)

vars == <<args, initial, boundary, strategies, list, pc, replica, left, right,
          depth, interval, strategy, delta, result, ordering>>

-----------------------------------------------------------------------------
(* Bounds of the model *)

\* longest container the chain insertion builds
MaxLen == 5
\* deepest neighbor identifier handed to generate / cmp as a free input
MaxDepth == 1
\* the depth search is cut off here (never reached by the code as written)
DepthCap == 6

\* owner tags (Replica / Meta: any totally ordered type; integers here)
Replicas == {1, 2}

AddFromLeft == "AddFromLeft"
SubtractFromRight == "SubtractFromRight"
Strategies == {AddFromLeft, SubtractFromRight}

Less == "Less"
Equal == "Equal"
Greater == "Greater"

-----------------------------------------------------------------------------
(* Option and integer helpers *)

UnwrapOr(o, d) == IF o = {} THEN d ELSE CHOOSE x \in o : TRUE

Min(a, b) == IF a < b THEN a ELSE b
Max(a, b) == IF a > b THEN a ELSE b

RECURSIVE SignificantBits(_)
SignificantBits(x) == IF x = 0 THEN 0 ELSE 1 + SignificantBits(x \div 2)

Shl(x, k) == x * (2 ^ k)
Shr(x, k) == x \div (2 ^ k)

SetBit(x, k) == IF (x \div (2 ^ k)) % 2 = 1 THEN x ELSE x + 2 ^ k

IntCmp(a, b) == IF a < b THEN Less ELSE IF a > b THEN Greater ELSE Equal

-----------------------------------------------------------------------------
(* Bit-width policy: DoubleBase *)

DefaultInitial == 5
DefaultBoundary == 10

BaseOf(init, d) == init + d

MaxOf(init, d) == 2 ^ BaseOf(init, d) - 1

\* (n * (n + 1)) / 2 - (m * (m + 1) / 2) with m = initial - 1 in u32.
\* For initial = 0 a build without overflow checks wraps m to 2^32 - 1 and
\* m + 1 to 0, so the second term is 0 (the panic of a checked build is the
\* action GeneratePanic).
BitsOf(init, d) ==
  LET n == BaseOf(init, d)
      mm == IF init = 0 THEN 0 ELSE (init - 1) * init
  IN (n * (n + 1)) \div 2 - mm \div 2

GetBase(d) == BaseOf(initial, d)
GetMax(d) == MaxOf(initial, d)
GetBits(d) == BitsOf(initial, d)

Normalize(digit, d) ==
  LET digit_len == SignificantBits(digit) - 1
      total == GetBits(d)
  IN IF digit_len < total THEN Shl(digit, total - digit_len)
                          ELSE Shr(digit, digit_len - total)

\* interval without the "- 1": the right neighbor's own slot counted as free
IntervalNoGap(l, r, d) ==
  LET left_len == SignificantBits(l) - 1
      right_len == SignificantBits(r) - 1
      total == GetBits(d)
  IN IF left_len < total /\ right_len < total
       THEN GetMax(d)
       ELSE Normalize(r, d) - Normalize(l, d)

\* interval without the early return
IntervalNoEarly(l, r, d) == Normalize(r, d) - Normalize(l, d) - 1

\* interval whose early return is the maximum of the cumulative width
IntervalCumulativeMax(l, r, d) ==
  LET left_len == SignificantBits(l) - 1
      right_len == SignificantBits(r) - 1
      total == GetBits(d)
  IN IF left_len < total /\ right_len < total
       THEN 2 ^ total - 1
       ELSE Normalize(r, d) - Normalize(l, d) - 1

Interval(l, r, d) ==
  LET left_len == SignificantBits(l) - 1
      right_len == SignificantBits(r) - 1
      total == GetBits(d)
  IN IF left_len < total /\ right_len < total
       THEN GetMax(d)
       ELSE Normalize(r, d) - Normalize(l, d) - 1

\* the depth split's first loop finds: size = get_bits(depth); the loop does
\* not end when no depth has that cumulative width (-1 here)
RECURSIVE FindDepth(_, _, _)
FindDepth(init, size, d) ==
  IF size = BitsOf(init, d) THEN d
  ELSE IF BitsOf(init, d) > size THEN -1
  ELSE FindDepth(init, size, d + 1)

SplitDepth(digit) == FindDepth(initial, SignificantBits(digit) - 1, 0)

\* the per-depth fields, most significant first
Split(digit) ==
  LET size == SignificantBits(digit) - 1
      d == SplitDepth(digit)
      value == digit - 2 ^ size
  IN [i \in 1..(d + 1) |->
        (value \div 2 ^ (size - GetBits(i - 1))) % (2 ^ GetBase(i - 1))]

-----------------------------------------------------------------------------
(* Identifiers *)

IdentNew(rep, digit, size) == [replica |-> rep, digit |-> SetBit(digit, size)]

\* cmp without the owner-tag tie-break
CmpNoReplica(self, other) ==
  LET self_length == SignificantBits(self.digit)
      other_length == SignificantBits(other.digit)
      other_norm == IF self_length > other_length
                      THEN Shl(other.digit, self_length - other_length)
                      ELSE other.digit
      self_norm == IF self_length > other_length
                     THEN self.digit
                     ELSE Shl(self.digit, other_length - self_length)
      cmp_n == IntCmp(self_norm, other_norm)
  IN IF cmp_n # Equal THEN cmp_n ELSE IntCmp(self_length, other_length)

Cmp(self, other) ==
  LET self_length == SignificantBits(self.digit)
      other_length == SignificantBits(other.digit)
      other_norm == IF self_length > other_length
                      THEN Shl(other.digit, self_length - other_length)
                      ELSE other.digit
      self_norm == IF self_length > other_length
                     THEN self.digit
                     ELSE Shl(self.digit, other_length - self_length)
      cmp_n == IntCmp(self_norm, other_norm)
      cmp_replica == IntCmp(self.replica, other.replica)
  IN IF cmp_n # Equal THEN cmp_n
     ELSE IF cmp_replica # Equal THEN cmp_replica
     ELSE IntCmp(self_length, other_length)

Lt(a, b) == Cmp(a, b) = Less

\* the well-formed digits of depth 0..maxd under initial width init
DigitsOf(init, maxd) ==
  UNION { { 2 ^ BitsOf(init, d) + v : v \in 0..(2 ^ BitsOf(init, d) - 1) } : d \in 0..maxd }

IdentsOf(init, maxd) == [replica : Replicas, digit : DigitsOf(init, maxd)]

DepthOf(id) == SplitDepth(id.digit)

-----------------------------------------------------------------------------
(* Generator *)

\* let first / let last of generate
First == IdentNew(replica, 0, GetBits(0))
Last == IdentNew(replica, GetMax(0), GetBits(0))

LeftV == UnwrapOr(left, First)
RightV == UnwrapOr(right, Last)

\* ensure_strategy that stores the drawn strategy whether or not one is set
EnsureStrategyAlways(table, d, random) ==
  (d :> random) @@ table

\* ensure_strategy: random is the strategy LSEQStrategy::random() draws
EnsureStrategy(table, d, random) ==
  IF d \notin DOMAIN table THEN (d :> random) @@ table ELSE table

GetStrategy(table, d) == table[d]

\* "#1 Truncate tail or add bits"
Truncate(digit, base_len) ==
  LET prev_bit_count == SignificantBits(digit) - 1
  IN IF prev_bit_count >= base_len THEN Shr(digit, prev_bit_count - base_len)
                                   ELSE Shl(digit, base_len - prev_bit_count)

Step == Max(Min(interval, boundary), 1)

\* the sum / difference handed to Ident::new, before it sets the guard bit
Raw(strat, d, dl) ==
  IF strat = AddFromLeft THEN Truncate(LeftV.digit, GetBits(d)) + dl
                         ELSE Truncate(RightV.digit, GetBits(d)) - dl

-----------------------------------------------------------------------------
(* Actions *)

\* DoubleBase::new and LSEQGenerator::new
New ==
  /\ pc = "new"
  /\ initial' = UnwrapOr(args.initial, DefaultInitial)
  /\ boundary' = UnwrapOr(args.boundary, DefaultBoundary)
  /\ strategies' = << >>
  /\ pc' = "idle"
  /\ UNCHANGED <<args, list, replica, left, right, depth, interval, strategy,
                 delta, result, ordering>>

\* entry of generate: interval = 0, depth = 0, first, last, left_v, right_v
Enter(rep, l, r) ==
  /\ replica' = rep
  /\ left' = l
  /\ right' = r
  /\ interval' = 0
  /\ depth' = 0
  /\ strategy' = {}
  /\ delta' = 0
  /\ result' = {}
  /\ pc' = "search"
  /\ UNCHANGED <<args, initial, boundary, strategies, list, ordering>>

\* tests::it_works: generate between the elements around position p
Call(p) ==
  /\ pc = "idle"
  /\ Len(list) < MaxLen
  /\ Enter(CHOOSE r \in Replicas : \A q \in Replicas : r <= q,
           IF p = 0 THEN {} ELSE {list[p]},
           IF p = Len(list) THEN {} ELSE {list[p + 1]})

\* a build with overflow checks panics in get_bits(0) on initial - 1
GeneratePanic ==
  /\ pc = "idle"
  /\ initial = 0
  /\ pc' = "panic"
  /\ UNCHANGED <<args, initial, boundary, strategies, list, replica, left, right,
                 depth, interval, strategy, delta, result, ordering>>

\* one iteration of while interval < 1
SearchStep ==
  /\ pc = "search"
  /\ interval < 1
  /\ depth <= DepthCap
  /\ interval' = Interval(LeftV.digit, RightV.digit, depth)
  /\ depth' = depth + 1
  /\ UNCHANGED <<args, initial, boundary, strategies, list, pc, replica, left,
                 right, strategy, delta, result, ordering>>

\* after the loop: depth -= 1, step, ensure_strategy, the match
Allocate ==
  /\ pc = "search"
  /\ interval >= 1
  /\ \E random \in Strategies, dl \in 1..Step :
       LET d == depth - 1
           table == EnsureStrategy(strategies, d, random)
           strat == GetStrategy(table, d)
       IN /\ depth' = d
          /\ strategies' = table
          /\ strategy' = {strat}
          /\ delta' = dl
          /\ result' = {IdentNew(replica, Raw(strat, d, dl), GetBits(d))}
  /\ pc' = "done"
  /\ UNCHANGED <<args, initial, boundary, list, replica, left, right, interval,
                 ordering>>

\* OrderedSkipList::insert: the element goes after those not greater than it
SortedInsert(s, x) ==
  LET k == Cardinality({i \in 1..Len(s) : Cmp(s[i], x) # Greater})
  IN SubSeq(s, 1, k) \o <<x>> \o SubSeq(s, k + 1, Len(s))

Insert ==
  /\ pc = "done"
  /\ list' = SortedInsert(list, UnwrapOr(result, First))
  /\ pc' = "idle"
  /\ UNCHANGED <<args, initial, boundary, strategies, replica, left, right,
                 depth, interval, strategy, delta, result, ordering>>

\* Ident::cmp applied to two identifiers
Compare ==
  /\ pc = "cmp"
  /\ ordering' = {Cmp(LeftV, RightV)}
  /\ pc' = "compared"
  /\ UNCHANGED <<args, initial, boundary, strategies, list, replica, left, right,
                 depth, interval, strategy, delta, result>>

-----------------------------------------------------------------------------
(* Specifications *)

Some(x) == {x}
None == {}

Constructed(i, b) ==
  /\ args = [initial |-> Some(i), boundary |-> Some(b)]
  /\ initial = i
  /\ boundary = b
  /\ strategies = << >>
  /\ list = << >>
  /\ ordering = None

NoCall ==
  /\ replica = CHOOSE r \in Replicas : \A q \in Replicas : r <= q
  /\ left = None
  /\ right = None
  /\ depth = 0
  /\ interval = 0
  /\ strategy = None
  /\ delta = 0
  /\ result = None

\* chain insertion (tests::it_works) on a constructed generator
ChainConfigs == { <<1, 1>>, <<1, 2>>, <<2, 2>> }

Init ==
  /\ \E c \in ChainConfigs : Constructed(c[1], c[2])
  /\ pc = "idle"
  /\ NoCall

Next ==
  \/ \E p \in 0..Len(list) : Call(p)
  \/ SearchStep
  \/ Allocate
  \/ Insert

Spec == Init /\ [][Next]_vars

\* one generate call on a fresh generator with free arguments
PairConfigs == { <<1, 1>>, <<1, 3>> }

OptionOf(S) == {None} \cup { Some(x) : x \in S }

InitPair ==
  /\ \E c \in PairConfigs : Constructed(c[1], c[2])
  /\ replica \in Replicas
  /\ left \in OptionOf(IdentsOf(initial, MaxDepth))
  /\ right \in OptionOf(IdentsOf(initial, MaxDepth))
  /\ depth = 0
  /\ interval = 0
  /\ strategy = None
  /\ delta = 0
  /\ result = None
  /\ pc = "search"

NextPair ==
  \/ SearchStep
  \/ Allocate

SpecPair == InitPair /\ [][NextPair]_vars

\* Ident::cmp on two free identifiers
InitCmp ==
  /\ Constructed(1, 1)
  /\ replica = CHOOSE r \in Replicas : \A q \in Replicas : r <= q
  /\ left \in { Some(x) : x \in IdentsOf(initial, MaxDepth) }
  /\ right \in { Some(x) : x \in IdentsOf(initial, MaxDepth) }
  /\ depth = 0
  /\ interval = 0
  /\ strategy = None
  /\ delta = 0
  /\ result = None
  /\ pc = "cmp"

NextCmp == Compare

SpecCmp == InitCmp /\ [][NextCmp]_vars

\* construction with free arguments, then generate on the empty container
ArgValues == {None, Some(0), Some(1), Some(2)}

InitConfig ==
  /\ args \in [initial : ArgValues, boundary : ArgValues]
  /\ initial = 0
  /\ boundary = 0
  /\ strategies = << >>
  /\ list = << >>
  /\ ordering = None
  /\ NoCall
  /\ pc = "new"

NextConfig ==
  \/ New
  \/ GeneratePanic
  \/ Call(0)
  \/ SearchStep
  \/ Allocate

SpecConfig == InitConfig /\ [][NextConfig]_vars

-----------------------------------------------------------------------------
(* Properties *)

Returned == UnwrapOr(result, First)

Between(x) == Lt(LeftV, x) /\ Lt(x, RightV)

\* the two digits aligned as Ident::cmp aligns them are equal
Tie(a, b) ==
  LET la == SignificantBits(a.digit)
      lb == SignificantBits(b.digit)
  IN Shl(a.digit, Max(la, lb) - la) = Shl(b.digit, Max(la, lb) - lb)

\* C1: whenever generate is called with left < right (an absent neighbor
\* replaced by the root boundary), the identifier it returns is strictly
\* between them: left < x < right.
C1_OrderPreserved ==
  (pc = "done" /\ Lt(LeftV, RightV)) => Between(Returned)

\* C2: the container of the chain insertion is strictly increasing under the
\* identifier order (so it holds no two equal identifiers), and every
\* identifier generated for it is strictly between the two neighbors it was
\* generated from.
C2_ChainSorted ==
  /\ \A i \in 1..Len(list) : \A j \in 1..Len(list) : i < j => Lt(list[i], list[j])
  /\ pc = "done" => Between(Returned)

C2_Witness ==
  /\ pc = "done"
  /\ left # None
  /\ right # None
  /\ Len(list) >= 3
  /\ Between(Returned)

\* C3: a step never changes or removes an entry of the strategy table, and a
\* call that terminates at a depth that already has an entry applies exactly
\* that entry.
C3_StrategyStable ==
  [][ /\ \A d \in DOMAIN strategies :
           d \in DOMAIN strategies' /\ strategies'[d] = strategies[d]
      /\ (pc = "search" /\ pc' = "done" /\ (depth - 1) \in DOMAIN strategies)
           => strategy' = {strategies[depth - 1]} ]_vars

C3_Witness ==
  /\ pc = "done"
  /\ \E i \in 1..Len(list) : DepthOf(list[i]) = depth
  /\ strategy = {strategies[depth]}

Reverse(o) == IF o = Less THEN Greater ELSE IF o = Greater THEN Less ELSE Equal

\* C4: cmp is a total order on well-formed identifiers: cmp(a,b) is the
\* reverse of cmp(b,a); it is Equal exactly when a = b; it is transitive;
\* equal digits with different owner tags are ordered by owner tag; equal
\* aligned values with equal owner tags are ordered shorter first.
C4_TotalOrder ==
  pc = "compared" =>
    LET a == LeftV
        b == RightV
        o == UnwrapOr(ordering, Equal)
    IN /\ ordering # None
       /\ o = Reverse(Cmp(b, a))
       /\ (o = Equal) <=> (a = b)
       /\ \A c \in IdentsOf(initial, MaxDepth) :
            /\ (o = Less /\ Cmp(b, c) = Less) => Cmp(a, c) = Less
            /\ (o = Greater /\ Cmp(b, c) = Greater) => Cmp(a, c) = Greater
       /\ (a.digit = b.digit /\ a.replica # b.replica)
            => o = IntCmp(a.replica, b.replica)
       /\ (Tie(a, b) /\ a.replica = b.replica)
            => o = IntCmp(SignificantBits(a.digit), SignificantBits(b.digit))

C4_Witness ==
  /\ pc = "compared"
  /\ ordering = {Less}
  /\ Tie(LeftV, RightV)
  /\ LeftV.replica = RightV.replica
  /\ SignificantBits(LeftV.digit) < SignificantBits(RightV.digit)

DeeperDepth == Max(DepthOf(LeftV), DepthOf(RightV))

\* C5: the depth search always can take its next step until it ends, never
\* evaluates interval at a depth beyond one more than the deeper neighbor's,
\* and ends at a depth of at most that.
C5_SearchTerminates ==
  /\ pc = "search" =>
       /\ ENABLED (SearchStep \/ Allocate)
       /\ depth <= DeeperDepth + 2
       /\ interval < 1 => depth <= DeeperDepth + 1
  /\ pc = "done" => depth <= DeeperDepth + 1

C5_Witness ==
  /\ pc = "done"
  /\ left # None
  /\ right # None
  /\ DepthOf(LeftV) # DepthOf(RightV)
  /\ depth = DeeperDepth + 1

\* C6: a generator built with initial width 0 or boundary 0 is rejected at
\* construction: the program never gets past construction with it.
C6_ConfigRejected ==
  (args.initial = Some(0) \/ args.boundary = Some(0))
    => (pc = "new" /\ result = None)

\* C7: a generate call with both neighbors present and left not strictly
\* less than right returns no identifier.
C7_MisorderedFails ==
  (left # None /\ right # None /\ ~Lt(LeftV, RightV))
    => (pc # "done" /\ result = None)

\* C8: for a call with left < right the sum or difference handed to
\* Ident::new already has its highest set bit at cumulative_width(d) (no
\* carry into the guard bit, no borrow from it), so has the returned digit,
\* and split finds depth d for it.
C8_GuardBit ==
  (pc = "done" /\ Lt(LeftV, RightV)) =>
    LET raw == Raw(UnwrapOr(strategy, AddFromLeft), depth, delta)
    IN /\ SignificantBits(raw) - 1 = GetBits(depth)
       /\ Returned.digit = raw
       /\ SignificantBits(Returned.digit) - 1 = GetBits(depth)
       /\ SplitDepth(Returned.digit) = depth

\* C9: in a call with left < right, the returned digit is the chosen side's
\* neighbor normalized to depth d plus (grow-from-left) or minus
\* (shrink-from-right) a delta with 1 <= delta <= min(interval, boundary);
\* with boundary 1 the delta is 1.
C9_StepBound ==
  (pc = "done" /\ Lt(LeftV, RightV)) =>
    /\ delta >= 1
    /\ delta <= Min(interval, boundary)
    /\ boundary = 1 => delta = 1
    /\ strategy = {AddFromLeft}
         => Returned.digit = Normalize(LeftV.digit, depth) + delta
    /\ strategy = {SubtractFromRight}
         => Returned.digit = Normalize(RightV.digit, depth) - delta

\* C10: in the chain insertion, whenever the depth search has just taken the
\* early return of interval (both digits shorter than the cumulative width
\* of the depth evaluated), the value equals
\* normalize(right) - normalize(left) - 1 at that depth.
C10_EarlyReturnAgrees ==
  (/\ pc = "search"
   /\ depth > 0
   /\ SignificantBits(LeftV.digit) - 1 < GetBits(depth - 1)
   /\ SignificantBits(RightV.digit) - 1 < GetBits(depth - 1))
    => interval = Normalize(RightV.digit, depth - 1)
                    - Normalize(LeftV.digit, depth - 1) - 1

C10_Witness ==
  /\ pc = "search"
  /\ depth > 1
  /\ left # None
  /\ right # None
  /\ SignificantBits(LeftV.digit) - 1 < GetBits(depth - 1)
  /\ SignificantBits(RightV.digit) - 1 < GetBits(depth - 1)
  /\ interval = GetMax(depth - 1)

====
